---- MODULE Spec2Model ----
(***************************************************************************)
(* Model of the numeric core of UNIlib.py: nIntegration (trapezoidal       *)
(* rule), ndifferential (forward differences), verweilzeitUmsatzmake (the  *)
(* iterative CSTR conversion model) and Manuelleauswertung (moment         *)
(* analysis of a residence-time curve).                                    *)
(*                                                                         *)
(* Numbers.  Python floats and numpy float64 values are binary floating    *)
(* point numbers.  They are modelled by the same format at a reduced size: *)
(* a finite value is an integer count v of the smallest increment          *)
(* 2^-FracBits, every arithmetic result is rounded to nearest, ties to     *)
(* even, to Prec significant bits, and nan and +-inf are values of their   *)
(* own.  A value also carries its Python type, "py" (a Python float or     *)
(* int) or "np" (a numpy.float64): Python raises ZeroDivisionError on a    *)
(* division of Python numbers by zero, numpy returns nan or inf with a     *)
(* warning.  Signed zeros and overflow to inf are outside the bounded      *)
(* inputs and are not modelled.                                            *)
(***************************************************************************)
EXTENDS Integers, Sequences, FiniteSets, TLC

\* significand bits of the modelled floating point format (binary64: 53)
Prec == 8
\* the smallest increment is 2^-FracBits
FracBits == 6
\* longest input sequence of nIntegration
MaxLen == 4
\* longest input sequence of ndifferential and Manuelleauswertung
MaxPoints == 3
\* largest iteration count ii and longest tau / C_0i of verweilzeitUmsatzmake
MaxSteps == 3

Scale == 2^FracBits

-----------------------------------------------------------------------------
(* Floating point values                                                   *)

Fin(n, ty) == [k |-> "fin", v |-> n, ty |-> ty]
NaN(ty) == [k |-> "nan", v |-> 0, ty |-> ty]
Inf(s, ty) == [k |-> "inf", v |-> s, ty |-> ty]

\* a Python number with the (exactly representable) integer value n
Py(n) == Fin(n * Scale, "py")
IsNaN(x) == x.k = "nan"
IsInf(x) == x.k = "inf"
IsZero(x) == x.k = "fin" /\ x.v = 0

\* the numeric value, the Python type left aside
Val(x) == [k |-> x.k, v |-> x.v]

Sgn(n) == IF n < 0 THEN -1 ELSE IF n = 0 THEN 0 ELSE 1
Abs(n) == IF n < 0 THEN -n ELSE n

\* the Python type of a binary operation's result
Join(x, y) == IF x.ty = "np" \/ y.ty = "np" THEN "np" ELSE "py"

\* number of bits of m >= 0
Width(m) == CHOOSE w \in 0..30 : m < 2^w /\ (w = 0 \/ m >= 2^(w-1))

\* the spacing of the representable values around m >= 0
Quantum(m) == IF Width(m) > Prec THEN 2^(Width(m) - Prec) ELSE 1

\* p/d (p >= 0, d > 0) rounded to the nearest representable value, ties to even
RoundRat(p, d) ==
    LET fl == p \div d
        q  == Quantum(fl)
        lo == (fl \div q) * q
        r2 == 2 * (p - lo * d)
        up == r2 > q * d \/ (r2 = q * d /\ (lo \div q) % 2 = 1)
    IN  IF up THEN lo + q ELSE lo

\* p/d (d > 0) rounded, any sign: rounding is symmetric about zero
SRound(p, d) == IF p >= 0 THEN RoundRat(p, d) ELSE -RoundRat(-p, d)

FNeg(x) == [x EXCEPT !.v = -x.v]

\* x + y
FAdd(x, y) ==
    LET ty == Join(x, y)
    IN  CASE IsNaN(x) \/ IsNaN(y) -> NaN(ty)
          [] IsInf(x) /\ IsInf(y) -> IF x.v = y.v THEN Inf(x.v, ty) ELSE NaN(ty)
          [] IsInf(x) -> Inf(x.v, ty)
          [] IsInf(y) -> Inf(y.v, ty)
          [] OTHER -> Fin(SRound(x.v + y.v, 1), ty)

\* x - y
FSub(x, y) == FAdd(x, FNeg(y))

\* x * y
FMul(x, y) ==
    LET ty == Join(x, y)
    IN  CASE IsNaN(x) \/ IsNaN(y) -> NaN(ty)
          [] IsInf(x) \/ IsInf(y) ->
               IF IsZero(x) \/ IsZero(y) THEN NaN(ty)
               ELSE Inf(Sgn(x.v) * Sgn(y.v), ty)
          [] OTHER -> Fin(SRound(x.v * y.v, Scale), ty)

\* x / y where Python raises ZeroDivisionError: both operands Python numbers
DivRaises(x, y) == x.ty = "py" /\ y.ty = "py" /\ IsZero(y)

\* x / y otherwise: numpy's result (nan or inf, with a warning, on y = 0)
FDiv(x, y) ==
    LET ty == Join(x, y)
    IN  CASE IsNaN(x) \/ IsNaN(y) -> NaN(ty)
          [] IsInf(x) /\ IsInf(y) -> NaN(ty)
          [] IsInf(x) -> Inf(x.v * (IF y.v < 0 THEN -1 ELSE 1), ty)
          [] IsInf(y) -> Fin(0, ty)
          [] IsZero(y) -> IF x.v = 0 THEN NaN(ty) ELSE Inf(Sgn(x.v), ty)
          [] OTHER -> Fin(Sgn(y.v) * SRound(x.v * Scale, Abs(y.v)), ty)

\* the integer square root of N >= 0, found bit by bit from the top bit down
RECURSIVE IsqrtFrom(_, _, _)
IsqrtFrom(N, bit, acc) ==
    IF bit = 0 THEN acc
    ELSE IF (acc + bit) * (acc + bit) <= N THEN IsqrtFrom(N, bit \div 2, acc + bit)
    ELSE IsqrtFrom(N, bit \div 2, acc)

Isqrt(N) == IsqrtFrom(N, 2^14, 0)

\* sqrt(N) rounded to the nearest representable value, ties to even
RoundSqrt(N) ==
    LET s  == Isqrt(N)
        q  == Quantum(s)
        lo == (s \div q) * q
        m2 == (2 * lo + q) * (2 * lo + q)
        up == 4 * N > m2 \/ (4 * N = m2 /\ (lo \div q) % 2 = 1)
    IN  IF up THEN lo + q ELSE lo

\* np.sqrt(x): a numpy.float64; nan (with a warning) for a negative x
FSqrt(x) ==
    CASE IsNaN(x) -> NaN("np")
      [] IsInf(x) -> IF x.v > 0 THEN Inf(1, "np") ELSE NaN("np")
      [] x.v < 0 -> NaN("np")
      [] OTHER -> Fin(RoundSqrt(x.v * Scale), "np")

\* the sum of the series x^n/n!, n = 0.., for a finite x >= 0
RECURSIVE ExpSeries(_, _, _, _)
ExpSeries(x, n, term, acc) ==
    IF IsZero(term) THEN acc
    ELSE ExpSeries(x, n + 1, FDiv(FMul(term, x), Fin(n * Scale, "py")),
                   FAdd(acc, term))

\* np.e ** x for a finite Python float x
PowE(x) ==
    IF x.v >= 0 THEN ExpSeries(x, 1, Fin(Scale, "py"), Fin(0, "py"))
    ELSE FDiv(Fin(Scale, "py"),
              ExpSeries(FNeg(x), 1, Fin(Scale, "py"), Fin(0, "py")))

-----------------------------------------------------------------------------
(* Sequences                                                               *)

Reverse(s) == [n \in 1..Len(s) |-> s[Len(s) + 1 - n]]

Min(a, b) == IF a < b THEN a ELSE b

\* the sequences over S of length at most n
SeqsUpTo(S, n) == UNION {[1..m -> S] : m \in 0..n}

-----------------------------------------------------------------------------
(* nIntegration and ndifferential                                          *)

\* xdif = [j - i for i, j in zip(datax, datax[1:])]
Diffs(data) ==
    [n \in 1..(IF Len(data) = 0 THEN 0 ELSE Len(data) - 1) |->
        FSub(data[n + 1], data[n])]

\* the left sample in place of the mean of the two: a rectangle rule
MidsLeft(data) ==
    [n \in 1..(IF Len(data) = 0 THEN 0 ELSE Len(data) - 1) |-> data[n]]

\* ydif = [(i + j) / 2 for i, j in zip(datay, datay[1:])]
Mids(data) ==
    [n \in 1..(IF Len(data) = 0 THEN 0 ELSE Len(data) - 1) |->
        FDiv(FAdd(data[n], data[n + 1]), Py(2))]

\* inte = [i * j for i, j in zip(xdif, ydif)]: zip stops at the shorter one
Products(xs, ys) == [n \in 1..Min(Len(xs), Len(ys)) |-> FMul(xs[n], ys[n])]

\* sum(inte): 0 + inte[0] + inte[1] + ..., added left to right
RECURSIVE SumFrom(_, _, _)
SumFrom(s, n, acc) ==
    IF n > Len(s) THEN acc ELSE SumFrom(s, n + 1, FAdd(acc, s[n]))

Sum(s) == SumFrom(s, 1, Py(0))

Returned(x) == [exc |-> "none", val |-> x]
Raised(e) == [exc |-> e]

\* a degenerate series taken for an error
nIntegrationStrict(datax, datay) ==
    IF Len(datax) # Len(datay) \/ Len(datax) < 2 THEN Raised("ValueError")
    ELSE Returned(Sum(Products(Diffs(datax), Mids(datay))))

\* the length check left out: zip cuts to the shorter sequence
nIntegrationUnchecked(datax, datay) ==
    IF Len(datax) < 2 THEN Returned(Py(0))
    ELSE Returned(Sum(Products(Diffs(datax), Mids(datay))))

nIntegration(datax, datay) ==
    IF Len(datax) # Len(datay) THEN Raised("ValueError")
    ELSE IF Len(datax) < 2 THEN Returned(Py(0))
    ELSE Returned(Sum(Products(Diffs(datax), Mids(datay))))

\* returns the pair (xdiff, ydiff); there is no length check
ndifferential(datax, datay) ==
    [exc |-> "none", xdiff |-> Diffs(datax), ydiff |-> Diffs(datay)]

-----------------------------------------------------------------------------
(* Arrhenius rate constant                                                 *)

\* R_0 = 8.314
R_0 == Fin(RoundRat(8314 * Scale, 1000), "py")

\* -Ea / (R_0 * T) raises ZeroDivisionError when R_0 * T is zero
ArrheniusRaises(Ea, T) == DivRaises(FNeg(Ea), FMul(R_0, T))

\* k = k0 * (np.e) ** (-Ea / (R_0 * T))
Arrhenius(k0, Ea, T) == FMul(k0, PowE(FDiv(FNeg(Ea), FMul(R_0, T))))

-----------------------------------------------------------------------------
(* State                                                                   *)

VARIABLES
    pc,     \* "idle": no call made; "loop": inside the for loop of
            \* verweilzeitUmsatzmake; "done": the call has returned or raised
    op,     \* the function called
    args,   \* the arguments as they were at the call
    out,    \* what the call returned or raised
    k,      \* verweilzeitUmsatzmake: the rate constant
    C_0i,   \* verweilzeitUmsatzmake: the caller's concentration list (the
            \* parameter is the caller's list object itself, not a copy)
    F_i,    \* verweilzeitUmsatzmake: the conversion list
    i       \* verweilzeitUmsatzmake: the loop index

vars == <<pc, op, args, out, k, C_0i, F_i, i>>

NoOut == [exc |-> "pending"]

Init ==
    /\ pc = "idle"
    /\ op = "none"
    /\ args = <<>>
    /\ out = NoOut
    /\ k = Py(0)
    /\ C_0i = <<>>
    /\ F_i = <<>>
    /\ i = 0

-----------------------------------------------------------------------------
(* Inputs                                                                  *)

XValues == {Py(0), Py(1), Py(2), Py(3)}
YValues == {Py(1), Py(512)}
SignalValues == {Py(0), Py(1)}
TimeValues == {Py(-1), Py(0), Py(1)}
MomentKinetics == {<<Py(1), Py(8314), Py(350)>>, <<Py(1), Py(8314), Py(0)>>}
TauValues == {Py(0), Py(1)}
ConcValues == {Py(0), Py(2)}
\* (k0, Ea, T): a nominal set, k0 = 0, T = 0, and Ea = 0
Kinetics ==
    { <<Py(1), Py(8314), Py(350)>>, <<Py(0), Py(8314), Py(350)>>,
      <<Py(1), Py(8314), Py(0)>>, <<Py(1), Py(0), Py(350)>> }

-----------------------------------------------------------------------------
(* Calls of the pure functions                                             *)

Call_nIntegration ==
    /\ pc = "idle"
    /\ \E datax \in SeqsUpTo(XValues, MaxLen), datay \in SeqsUpTo(YValues, MaxLen) :
         /\ args' = [datax |-> datax, datay |-> datay]
         /\ out' = nIntegration(datax, datay)
    /\ op' = "nIntegration"
    /\ pc' = "done"
    /\ UNCHANGED <<k, C_0i, F_i, i>>

Call_ndifferential ==
    /\ pc = "idle"
    /\ \E datax \in SeqsUpTo(XValues, MaxPoints), datay \in SeqsUpTo(YValues, MaxPoints) :
         /\ args' = [datax |-> datax, datay |-> datay]
         /\ out' = ndifferential(datax, datay)
    /\ op' = "ndifferential"
    /\ pc' = "done"
    /\ UNCHANGED <<k, C_0i, F_i, i>>

-----------------------------------------------------------------------------
(* verweilzeitUmsatzmake                                                   *)

\* a = tauexp[i] * k * C_0i[i] * 60
StepA(tau_i, kk, c_i) == FMul(FMul(FMul(tau_i, kk), c_i), Py(60))

\* F = (1 + 2 * a - np.sqrt(1 + 4 * a * (1 - F_i[i]))) / (2 * a)
StepF(a, f_i) ==
    FDiv(FSub(FAdd(Py(1), FMul(Py(2), a)),
              FSqrt(FAdd(Py(1), FMul(FMul(Py(4), a), FSub(Py(1), f_i))))),
         FMul(Py(2), a))

\* lines 387-390: R_0, k, tauexp = tau, F_i = [0].  C_0i is the caller's list.
Call_verweilzeitUmsatzmake ==
    /\ pc = "idle"
    /\ \E tau \in SeqsUpTo(TauValues, MaxSteps), kin \in Kinetics,
          c0 \in SeqsUpTo(ConcValues, MaxSteps), ii \in 0..MaxSteps :
         /\ args' = [tau |-> tau, k0 |-> kin[1], Ea |-> kin[2], T |-> kin[3],
                     C_0i |-> c0, ii |-> ii]
         /\ C_0i' = c0
         /\ IF ArrheniusRaises(kin[2], kin[3])
            THEN /\ out' = Raised("ZeroDivisionError")
                 /\ pc' = "done"
                 /\ UNCHANGED <<k, F_i>>
            ELSE /\ k' = Arrhenius(kin[1], kin[2], kin[3])
                 /\ F_i' = <<Py(0)>>
                 /\ pc' = "loop"
                 /\ out' = NoOut
    /\ op' = "verweilzeitUmsatzmake"
    /\ i' = 0

\* the subscripts of one pass are in range: tauexp[i], C_0i[i], F_i[i]
InRange == i < Len(args.tau) /\ i < Len(C_0i) /\ i < Len(F_i)

\* the pass appends the conversion F, not the concentration F * C_0i[i]
LoopBodyAppendsF ==
    LET a == StepA(args.tau[i + 1], k, C_0i[i + 1])
        F == StepF(a, F_i[i + 1])
    IN  /\ F_i' = Append(F_i, F)
        /\ C_0i' = Append(C_0i, F)
        /\ i' = i + 1
        /\ UNCHANGED <<pc, out>>

\* the pass leaves the concentration list as it is
LoopBodyNoGrowth ==
    LET a == StepA(args.tau[i + 1], k, C_0i[i + 1])
        F == StepF(a, F_i[i + 1])
    IN  /\ F_i' = Append(F_i, F)
        /\ i' = i + 1
        /\ UNCHANGED <<pc, out, C_0i>>

\* one pass of the loop body, lines 392-395 (Python subscript i is i + 1 here)
LoopBody ==
    LET a == StepA(args.tau[i + 1], k, C_0i[i + 1])
        F == StepF(a, F_i[i + 1])
    IN  /\ F_i' = Append(F_i, F)
        /\ C_0i' = Append(C_0i, FMul(F, C_0i[i + 1]))
        /\ i' = i + 1
        /\ UNCHANGED <<pc, out>>

\* range(ii + 1): one pass too many
LoopingInclusive == i <= args.ii

\* for i in range(ii): another pass follows
Looping == i < args.ii

Step ==
    /\ pc = "loop"
    /\ Looping
    /\ IF InRange THEN LoopBody
       ELSE /\ out' = Raised("IndexError")
            /\ pc' = "done"
            /\ UNCHANGED <<C_0i, F_i, i>>
    /\ UNCHANGED <<op, args, k>>

\* return F_i
Return ==
    /\ pc = "loop"
    /\ ~Looping
    /\ out' = [exc |-> "none", val |-> F_i]
    /\ pc' = "done"
    /\ UNCHANGED <<op, args, k, C_0i, F_i, i>>

-----------------------------------------------------------------------------
(* Manuelleauswertung                                                      *)

\* x ** 0.5: nan (with a warning) for a negative numpy.float64.  A negative
\* Python float would give a complex number; sigsq is a Python float only for
\* a series of fewer than two points, where it is 0.0.
Pow05(x) == [FSqrt(x) EXCEPT !.ty = x.ty]

\* [a * b for a, b in zip(E_tn, t)]
FirstMoment(E_tn, t) ==
    [n \in 1..Min(Len(E_tn), Len(t)) |-> FMul(E_tn[n], t[n])]

\* [a * (b**2) for a, b in zip(E_tn, t)]
SecondMoment(E_tn, t) ==
    [n \in 1..Min(Len(E_tn), Len(t)) |-> FMul(E_tn[n], FMul(t[n], t[n]))]

\* lines 460-483, reached with the two moments computed
Kennzahlen(E_tn, t, mu1, mu2, mol_in, Volstrom, c_in, k0, Ea, T) ==
    LET sigsq == FSub(mu2, FMul(mu1, mu1))
        sig   == Pow05(sigsq)
        mu1sq == FMul(mu1, mu1)
        sigma_theta_sq == FDiv(sigsq, mu1sq)
        D_uL  == FDiv(FAdd(Py(-2),
                           Pow05(FAdd(Py(4), FMul(Py(32), sigma_theta_sq)))),
                      Py(16))
        V_eff == FMul(mu1, Volstrom)
        c_t   == [n \in 1..Len(E_tn) |-> FDiv(FMul(E_tn[n], mol_in), Volstrom)]
        kk    == Arrhenius(k0, Ea, T)
        num   == FMul(FMul(FMul(c_in, mu1), Py(60)), kk)
        den   == FAdd(Py(1), num)
    IN  IF DivRaises(sigsq, mu1sq) THEN Raised("ZeroDivisionError")
        ELSE IF \E n \in 1..Len(E_tn) : DivRaises(FMul(E_tn[n], mol_in), Volstrom)
             THEN Raised("ZeroDivisionError")
        ELSE IF ArrheniusRaises(Ea, T) THEN Raised("ZeroDivisionError")
        ELSE IF DivRaises(num, den) THEN Raised("ZeroDivisionError")
        ELSE \* print_results_pretty(ergebnisse); the function returns None
             [exc |-> "none", val |-> "None",
              ergebnisse |-> [mu1 |-> mu1, mu2 |-> mu2, sigsq |-> sigsq,
                              sig |-> sig, sigma_theta_sq |-> sigma_theta_sq,
                              D_uL |-> D_uL, V_eff |-> V_eff, t |-> t,
                              f_i |-> FDiv(num, den), c_t |-> c_t]]

\* kind is the type of E_t: "list" or "ndarray"
Manuelleauswertung(kind, E_t, t, mol_in, Volstrom, c_in, k0, Ea, T) ==
    LET raw == nIntegration(t, E_t)
    IN  IF raw.exc # "none" THEN raw
        ELSE IF kind = "list" THEN Raised("TypeError")  \* list / float
        ELSE
          LET E_tn == [n \in 1..Len(E_t) |-> FDiv(E_t[n], raw.val)]
              m1 == nIntegration(t, FirstMoment(E_tn, t))
              m2 == nIntegration(t, SecondMoment(E_tn, t))
          IN  IF m1.exc # "none" THEN m1
              ELSE IF m2.exc # "none" THEN m2
              ELSE Kennzahlen(E_tn, t, m1.val, m2.val, mol_in, Volstrom, c_in,
                              k0, Ea, T)

\* the elements of E_t have the type of their container
Elements(kind, s) == [n \in 1..Len(s) |-> [s[n] EXCEPT !.ty = IF kind = "list" THEN "py" ELSE "np"]]

Call_Manuelleauswertung ==
    /\ pc = "idle"
    /\ \E kind \in {"list", "ndarray"}, e \in SeqsUpTo(SignalValues, MaxPoints),
          t \in SeqsUpTo(TimeValues, MaxPoints), kin \in MomentKinetics :
         /\ args' = [kind |-> kind, E_t |-> Elements(kind, e), t |-> t,
                     mol_in |-> Py(1), Volstrom |-> Py(1), c_in |-> Py(1),
                     k0 |-> kin[1], Ea |-> kin[2], T |-> kin[3]]
         /\ out' = Manuelleauswertung(kind, Elements(kind, e), t, Py(1), Py(1),
                                      Py(1), kin[1], kin[2], kin[3])
    /\ op' = "Manuelleauswertung"
    /\ pc' = "done"
    /\ UNCHANGED <<k, C_0i, F_i, i>>

-----------------------------------------------------------------------------
Next ==
    \/ Call_nIntegration
    \/ Call_ndifferential
    \/ Call_Manuelleauswertung
    \/ Call_verweilzeitUmsatzmake
    \/ Step
    \/ Return

Spec == Init /\ [][Next]_vars

-----------------------------------------------------------------------------
(* Properties                                                              *)

DoneWith(f) == pc = "done" /\ op = f

\* C1: nIntegration raises ValueError, and returns no number, whenever datax
\* and datay differ in length, empty and single-element sequences included.
C1_LengthMismatchRaises ==
    DoneWith("nIntegration") /\ Len(args.datax) # Len(args.datay)
        => out.exc = "ValueError"

C1_Witness ==
    /\ DoneWith("nIntegration")
    /\ Len(args.datax) = 0 /\ Len(args.datay) = 1
    /\ out.exc = "ValueError"

\* C2: ndifferential raises a length-mismatch error whenever datax and datay
\* differ in length.
C2_DifferencerRaises ==
    DoneWith("ndifferential") /\ Len(args.datax) # Len(args.datay)
        => out.exc # "none"

\* C3: after any call of verweilzeitUmsatzmake, successful or failing, the
\* caller's concentration list is what it was before the call.
C3_InputNotMutated ==
    DoneWith("verweilzeitUmsatzmake") => C_0i = args.C_0i

ZeroSteps ==
    {j \in 0..(i - 1) : IsZero(StepA(args.tau[j + 1], k, C_0i[j + 1]))}

\* C5: verweilzeitUmsatzmake raises an arithmetic error (ZeroDivisionError),
\* and returns no list holding nan or inf, whenever a pass computed a = 0.
C5_ZeroARaises ==
    DoneWith("verweilzeitUmsatzmake") /\ out.exc # "ZeroDivisionError"
        => ZeroSteps = {}

\* C6: Manuelleauswertung, given an array E_t, raises an arithmetic error
\* (ZeroDivisionError) whenever the integral of the raw series is 0, and never
\* ends with a mean residence time of 0.
C6_ZeroIntegralRaises ==
    DoneWith("Manuelleauswertung") /\ args.kind = "ndarray"
        => /\ nIntegration(args.t, args.E_t) = Returned(Py(0))
                 => out.exc = "ZeroDivisionError"
           /\ out.exc = "none" => ~IsZero(out.ergebnisse.mu1)

\* C7: for equal-length inputs of fewer than two points nIntegration returns
\* exactly 0.0 and raises nothing, whatever the values.
C7_DegenerateIsZero ==
    /\ DoneWith("nIntegration")
    /\ Len(args.datax) = Len(args.datay)
    /\ Len(args.datax) < 2
    => out = Returned(Py(0))

C7_Witness ==
    /\ DoneWith("nIntegration")
    /\ args.datax = <<Py(3)>> /\ args.datay = <<Py(512)>>
    /\ out = Returned(Py(0))

\* the call's inputs in reverse order, integrated
ReversedResult == nIntegration(Reverse(args.datax), Reverse(args.datay))

\* the call's trapezoid terms, and those of the reversed inputs
Terms == Products(Diffs(args.datax), Mids(args.datay))
ReversedTerms == Products(Diffs(Reverse(args.datax)), Mids(Reverse(args.datay)))

\* x is strictly ascending
Ascending(s) == \A n \in 1..(Len(s) - 1) : s[n].v < s[n + 1].v

\* C8 as stated, for ascending x against the same points with descending x:
\* nIntegration(reverse(x), reverse(y)) = -nIntegration(x, y).
C8_Antisymmetric ==
    DoneWith("nIntegration") /\ out.exc = "none" /\ Ascending(args.datax)
        => /\ ReversedResult.exc = "none"
           /\ Val(ReversedResult.val) = Val(FNeg(out.val))

\* C8 as amended: reversing the samples negates every trapezoid term exactly
\* and reverses their order; the sums are exactly opposite for at most three
\* points (two terms), beyond that only up to the rounding of the sum.
C8_AntisymmetricTerms ==
    DoneWith("nIntegration") /\ out.exc = "none"
        => /\ ReversedResult.exc = "none"
           /\ ReversedTerms = Reverse([n \in 1..Len(Terms) |-> FNeg(Terms[n])])
           /\ Len(args.datax) <= 3
                  => Val(ReversedResult.val) = Val(FNeg(out.val))

C8_Witness ==
    /\ DoneWith("nIntegration")
    /\ args.datax = <<Py(0), Py(1), Py(3)>>
    /\ args.datay = <<Py(512), Py(1), Py(1)>>
    /\ out.exc = "none" /\ out.val.v > 0
    /\ Val(ReversedResult.val) = Val(FNeg(out.val))

\* a pass is about to read tauexp[i], C_0i[i] and F_i[i]
AboutToRead == op = "verweilzeitUmsatzmake" /\ pc = "loop" /\ Looping /\ InRange

\* C9 as stated: at every pass i >= 1 the concentration read, C_0i[i], is the
\* element the previous pass appended (the last one of the list).
C9_ReadsPreviousOutlet ==
    AboutToRead /\ i >= 1 => i + 1 = Len(C_0i)

\* C9 as amended: with len0 the length of the caller's list, pass i reads the
\* caller's own C_0i[i] when i < len0, and otherwise the element appended by
\* pass i - len0, F[i-len0+1] * C_0i[i-len0]; the passes are chained one to the
\* next exactly when the caller passes a single concentration.
C9_ReadsOutletOfPassBefore ==
    AboutToRead =>
        LET len0 == Len(args.C_0i)
        IN  /\ i < len0 => C_0i[i + 1] = args.C_0i[i + 1]
            /\ i >= len0 =>
                 /\ Len(C_0i) = len0 + i
                 /\ C_0i[i + 1] = FMul(F_i[i - len0 + 2], C_0i[i - len0 + 1])
            /\ i >= 1 => (i + 1 = Len(C_0i) <=> len0 = 1)

C9_Witness ==
    /\ AboutToRead
    /\ Len(args.C_0i) = 2 /\ i = 2
    /\ C_0i[3].k = "fin" /\ C_0i[3].v > 0
    /\ C_0i[3] # C_0i[2]

\* C10: at the start of pass i the concentration list has len0 + i elements
\* and F_i has i + 1, so C_0i[i] and F_i[i] are in range whenever len0 >= 1;
\* a run of ii >= 1 passes that meets no arithmetic error ends in an IndexError
\* if and only if the caller's C_0i is empty or ii > len(tau).
C10_SubscriptsInRange ==
    /\ op = "verweilzeitUmsatzmake" /\ pc = "loop" =>
         /\ Len(C_0i) = Len(args.C_0i) + i
         /\ Len(F_i) = i + 1
         /\ Len(args.C_0i) >= 1 => i < Len(C_0i) /\ i < Len(F_i)
    /\ DoneWith("verweilzeitUmsatzmake") /\ args.ii >= 1
         /\ out.exc # "ZeroDivisionError" =>
         (out.exc = "IndexError"
              <=> Len(args.C_0i) = 0 \/ args.ii > Len(args.tau))

C10_Witness ==
    /\ DoneWith("verweilzeitUmsatzmake")
    /\ Len(args.C_0i) = 1 /\ args.ii = 3 /\ Len(args.tau) = 3
    /\ i = 3 /\ Len(C_0i) = 4
    /\ out.exc = "none"

====
